---- MODULE Spec2Model ----
(***************************************************************************)
(* MemTable of rust-lsm-db (src/src/mem_table.rs): a Vec of entries kept   *)
(* sorted by key, with a running byte count `size: usize`.                 *)
(*                                                                         *)
(* Byte strings are sequences of small naturals.  Option<Vec<u8>> is a     *)
(* sequence of length at most one: None is <<>>, Some(v) is <<v>>.         *)
(*                                                                         *)
(* `size` is a usize.  It is kept here as the two's-complement reading of  *)
(* its bit pattern: a value n >= 0 is the usize n, a value n < 0 is the    *)
(* usize 2^w + n (w the width of usize), the result of a wrapped           *)
(* subtraction.  `self.size -= d` with d > size panics when the build has  *)
(* overflow checks (debug, cargo test) and wraps when it has none          *)
(* (release); the build is fixed for a run by overflow_checks.             *)
(* A call that panics leaves the table as it was and ends the run.         *)
(* last, touched and reference are history variables: the call last made,  *)
(* the keys calls were made on, and a last-writer-wins map of the calls.   *)
(* Sums and differences of size in the properties are usize arithmetic.    *)
(***************************************************************************)
EXTENDS Integers, Sequences, FiniteSets

VARIABLES entries, size, overflow_checks, last, touched, reference

vars == <<entries, size, overflow_checks, last, touched, reference>>

\* ---- bounds of the model ------------------------------------------------
\* timestamps passed to set/delete are 0..MaxTs
MaxTs == 1
\* a build without overflow checks is followed until size has wrapped
\* MaxWrap below zero
MaxWrap == 8

\* the keys and values passed to set/delete: the empty slice, a key that is
\* longer but lexicographically smaller than another, an empty and a long value
Keys == {<<>>, <<1, 2>>, <<2>>}
Values == {<<>>, <<9, 9, 9, 9, 9, 9, 9, 9, 9>>}
Timestamps == 0..MaxTs

\* ---- Option<Vec<u8>> ----------------------------------------------------
None == <<>>
Some(v) == <<v>>
is_some(o) == Len(o) = 1
unwrap(o) == o[1]

\* ---- MemTableEntry ------------------------------------------------------
\* an entry whose flag is never raised
MemTableEntry_live(key, value, timestamp_ms, is_deleted) ==
    [key |-> key, value |-> value, timestamp_ms |-> timestamp_ms,
     is_deleted |-> FALSE]

MemTableEntry(key, value, timestamp_ms, is_deleted) ==
    [key |-> key, value |-> value, timestamp_ms |-> timestamp_ms,
     is_deleted |-> is_deleted]

\* ---- Ord for [u8]: byte-lexicographic, a proper prefix is smaller --------
RECURSIVE cmp(_, _)
cmp(a, b) ==
    IF a = <<>> /\ b = <<>> THEN "Equal"
    ELSE IF a = <<>> THEN "Less"
    ELSE IF b = <<>> THEN "Greater"
    ELSE IF Head(a) < Head(b) THEN "Less"
    ELSE IF Head(a) > Head(b) THEN "Greater"
    ELSE cmp(Tail(a), Tail(b))

\* ---- slice::binary_search_by_key(&key, |e| e.key) -------------------------
\* indices are 0-based as in the source; es[i + 1] is the Rust es[i]
RECURSIVE binary_search(_, _, _, _)
binary_search(es, key, left, right) ==
    IF left >= right THEN [ok |-> FALSE, idx |-> left]
    ELSE LET mid == left + ((right - left) \div 2)
             c == cmp(es[mid + 1].key, key)
         IN  IF c = "Equal" THEN [ok |-> TRUE, idx |-> mid]
             ELSE IF c = "Less" THEN binary_search(es, key, mid + 1, right)
             ELSE binary_search(es, key, left, mid)

\* a search that never looks at the last element
get_index_skip_last(es, key) ==
    binary_search(es, key, 0, IF Len(es) = 0 THEN 0 ELSE Len(es) - 1)

\* MemTable::get_index: Ok(idx) / Err(idx)
get_index(es, key) == binary_search(es, key, 0, Len(es))

\* an insert that pushes at the end instead of at idx
vec_insert_push(es, idx, e) == Append(es, e)

\* Vec::insert(idx, e), idx 0-based
vec_insert(es, idx, e) ==
    SubSeq(es, 1, idx) \o <<e>> \o SubSeq(es, idx + 1, Len(es))

\* a replacement that removes the old record and pushes the new one
vec_store_move(es, idx, e) ==
    Append(SubSeq(es, 1, idx) \o SubSeq(es, idx + 2, Len(es)), e)

\* self.entries[idx] = e, idx 0-based
vec_store(es, idx, e) == [es EXCEPT ![idx + 1] = e]

\* a lookup that hides tombstones
get_hide_deleted(es, key) ==
    LET r == get_index(es, key)
    IN  IF r.ok /\ ~es[r.idx + 1].is_deleted THEN Some(es[r.idx + 1]) ELSE None

\* MemTable::get: Some(&entry) / None
get(es, key) ==
    LET r == get_index(es, key)
    IN  IF r.ok THEN Some(es[r.idx + 1]) ELSE None

\* a count that leaves the tombstones out
len_live(es) == Cardinality({i \in 1..Len(es) : ~es[i].is_deleted})

\* MemTable::len
len(es) == Len(es)

\* ---- the call last made on the table -------------------------------------
\* prev: what the key held when the call was made; returned: FALSE when the
\* call panicked instead of returning
NoCall ==
    [op |-> "none", key |-> <<>>, value |-> None, timestamp_ms |-> 0,
     prev |-> "absent", returned |-> TRUE]

Call(op, key, value, timestamp_ms, prev, returned) ==
    [op |-> op, key |-> key, value |-> value, timestamp_ms |-> timestamp_ms,
     prev |-> prev, returned |-> returned]

prev_kind(es, key) ==
    LET r == get_index(es, key)
    IN  IF ~r.ok THEN "absent"
        ELSE IF is_some(es[r.idx + 1].value) THEN "value" ELSE "tombstone"

\* the reference map run beside the table: for each key the outcome of the
\* latest call made on it, None while no call was made on it
Written(value, timestamp_ms) == [value |-> value, timestamp_ms |-> timestamp_ms]

\* MemTable::new, in either build
Init ==
    /\ entries = <<>>
    /\ size = 0
    /\ overflow_checks \in BOOLEAN
    /\ last = NoCall
    /\ touched = {}
    /\ reference = [k \in Keys |-> None]

\* `self.size -= d`: the new size, or a panic
sub_panics(sz, d) == overflow_checks /\ sz - d < 0

\* ---- MemTable::set --------------------------------------------------------
\* the size after set, on the Ok(idx) branch (lines 47-53)
set_size_ok(sz, old, value) ==
    IF is_some(old)
    THEN IF Len(value) < Len(unwrap(old))
         THEN sz - (Len(unwrap(old)) - Len(value))
         ELSE sz + (Len(value) - Len(unwrap(old)))
    ELSE sz

\* a charge that forgets the 16 + 1 bytes of timestamp and flag
set_size_err_no_overhead(sz, key, value) == sz + Len(key) + Len(value)

\* the size after set, on the Err(idx) branch (line 59)
set_size_err(sz, key, value) == sz + Len(key) + Len(value) + 16 + 1

\* what one call leaves: the entries, the size, and whether it returned
Outcome(es, sz, returned) == [entries |-> es, size |-> sz, returned |-> returned]

\* set as a function of the table it is called on
set_call(es, sz, key, value, timestamp_ms) ==
    LET entry == MemTableEntry(key, Some(value), timestamp_ms, FALSE)
        r == get_index(es, key)
    IN  IF r.ok
        THEN LET old == es[r.idx + 1].value
                 nsz == set_size_ok(sz, old, value)
             IN  IF nsz < sz /\ sub_panics(sz, sz - nsz)
                 THEN Outcome(es, sz, FALSE)
                 ELSE Outcome(vec_store(es, r.idx, entry), nsz, TRUE)
        ELSE Outcome(vec_insert(es, r.idx, entry),
                     set_size_err(sz, key, value), TRUE)

Set(key, value, timestamp_ms) ==
    /\ last.returned
    /\ \E res \in {set_call(entries, size, key, value, timestamp_ms)},
          pk \in {prev_kind(entries, key)} :
       /\ res.size >= -MaxWrap
       /\ entries' = res.entries
       /\ size' = res.size
       /\ last' = Call("set", key, Some(value), timestamp_ms, pk, res.returned)
       /\ touched' = touched \cup {key}
       /\ reference' =
            [reference EXCEPT ![key] = Some(Written(Some(value), timestamp_ms))]
       /\ UNCHANGED overflow_checks

\* ---- MemTable::delete -----------------------------------------------------
\* an uncharge that takes the flag byte back when the record is a tombstone
delete_size_ok_flag(sz, old) ==
    IF is_some(old) THEN sz - Len(unwrap(old)) ELSE sz - 1

\* the size after delete, on the Ok(idx) branch (lines 78-80)
delete_size_ok(sz, old) ==
    IF is_some(old) THEN sz - Len(unwrap(old)) ELSE sz

\* a charge that forgets the key
delete_size_err_no_key(sz, key) == sz + 16 + 1

\* the size after delete, on the Err(idx) branch (line 86)
delete_size_err(sz, key) == sz + Len(key) + 16 + 1

\* delete as a function of the table it is called on
delete_call(es, sz, key, timestamp_ms) ==
    LET entry == MemTableEntry(key, None, timestamp_ms, TRUE)
        r == get_index(es, key)
    IN  IF r.ok
        THEN LET old == es[r.idx + 1].value
                 nsz == delete_size_ok(sz, old)
             IN  IF nsz < sz /\ sub_panics(sz, sz - nsz)
                 THEN Outcome(es, sz, FALSE)
                 ELSE Outcome(vec_store(es, r.idx, entry), nsz, TRUE)
        ELSE Outcome(vec_insert(es, r.idx, entry),
                     delete_size_err(sz, key), TRUE)

Delete(key, timestamp_ms) ==
    /\ last.returned
    /\ \E res \in {delete_call(entries, size, key, timestamp_ms)},
          pk \in {prev_kind(entries, key)} :
       /\ res.size >= -MaxWrap
       /\ entries' = res.entries
       /\ size' = res.size
       /\ last' = Call("delete", key, None, timestamp_ms, pk, res.returned)
       /\ touched' = touched \cup {key}
       /\ reference' =
            [reference EXCEPT ![key] = Some(Written(None, timestamp_ms))]
       /\ UNCHANGED overflow_checks

Next ==
    \/ \E key \in Keys, value \in Values, t \in Timestamps : Set(key, value, t)
    \/ \E key \in Keys, t \in Timestamps : Delete(key, t)

Spec == Init /\ [][Next]_vars

\* ---- helpers of the properties -------------------------------------------
\* len(key) + len(value) + 17 of one record, len(value) = 0 for a tombstone
entry_cost(e) ==
    Len(e.key) + (IF is_some(e.value) THEN Len(unwrap(e.value)) ELSE 0) + 17

RECURSIVE content_cost(_)
content_cost(es) ==
    IF es = <<>> THEN 0 ELSE entry_cost(Head(es)) + content_cost(Tail(es))

\* the value the record of key holds in es (0 bytes for a tombstone)
held_len(es, key) ==
    LET g == get(es, key)
    IN  IF is_some(g) /\ is_some(unwrap(g).value)
        THEN Len(unwrap(unwrap(g).value)) ELSE 0

\* C1: at every point entries() is strictly sorted by key in
\* byte-lexicographic order, so no two records carry the same key.
C1_StrictlySorted ==
    /\ \A i \in 1..(Len(entries) - 1) :
          cmp(entries[i].key, entries[i + 1].key) = "Less"
    /\ \A i, j \in 1..Len(entries) :
          entries[i].key = entries[j].key => i = j

\* three records, written by set and by delete, the last one inserted in
\* front of the others
C1_Witness ==
    /\ Len(entries) = 3
    /\ last.prev = "absent" /\ last.key = <<>>
    /\ \E i \in 1..3 : entries[i].is_deleted
    /\ \E i \in 1..3 : ~entries[i].is_deleted

\* C2: in every reachable state size() is the sum over the records of
\* len(key) + len(value) + 17, len(value) = 0 for a tombstone.
C2_SizeIsContentCost == size = content_cost(entries)

\* C3: set on a key whose record is a tombstone raises size() by exactly
\* len(value) and leaves len() unchanged.
C3_SetOverTombstone ==
    [][(last'.op = "set" /\ last'.prev = "tombstone")
         => /\ size' = size + Len(unwrap(last'.value))
            /\ len(entries') = len(entries)]_vars

\* C4: every set and delete call returns, and no subtraction on size goes
\* below zero (size never wraps).
C4_Totality == last.returned /\ size >= 0

\* C5: after set(k, v, t), made in any reachable state, get(k) is the record
\* (k, Some(v), t, is_deleted = false).
C5_LastWriterWins ==
    last.op = "set" =>
        get(entries, last.key)
          = Some(MemTableEntry(last.key, last.value, last.timestamp_ms, FALSE))

\* C6: after delete(k, t), made in any reachable state, get(k) is the record
\* (k, None, t, is_deleted = true), never absence.
C6_TombstoneSemantics ==
    last.op = "delete" =>
        get(entries, last.key)
          = Some(MemTableEntry(last.key, None, last.timestamp_ms, TRUE))

\* C7: get(k) is None if and only if k was never the key of a set or delete
\* call; a deleted key is found, as a tombstone.
C7_Absence ==
    \A k \in Keys : (get(entries, k) = None) <=> (k \notin touched)

\* a deleted key is found as a tombstone while another key was never touched
C7_Witness ==
    /\ last.op = "delete" /\ last.returned
    /\ is_some(get(entries, last.key))
    /\ unwrap(get(entries, last.key)).is_deleted
    /\ \E k \in Keys : k \notin touched /\ get(entries, k) = None

\* C8: set of an absent key raises size() by exactly
\* len(key) + len(value) + 17 and len() by exactly 1.
C8_SetNewKey ==
    [][(last'.op = "set" /\ last'.prev = "absent")
         => /\ last'.returned
            /\ size' = size + Len(last'.key) + Len(unwrap(last'.value)) + 17
            /\ len(entries') = len(entries) + 1]_vars

\* three keys set one after the other on an empty table, every byte counted
C8_Witness ==
    /\ last.op = "set" /\ last.prev = "absent" /\ last.returned
    /\ Len(entries) = 3
    /\ \A i \in 1..3 : ~entries[i].is_deleted
    /\ size = content_cost(entries)

\* C9: set on a key holding a value old moves size() by exactly
\* len(new) - len(old) and leaves len() unchanged.
C9_Overwrite ==
    [][(last'.op = "set" /\ last'.prev = "value")
         => /\ last'.returned
            /\ size' = size + Len(unwrap(last'.value))
                             - held_len(entries, last'.key)
            /\ len(entries') = len(entries)]_vars

\* C10: delete of an absent key returns, inserts a tombstone, raises len()
\* by exactly 1 and size() by exactly len(key) + 17.
C10_DeleteNewKey ==
    [][(last'.op = "delete" /\ last'.prev = "absent")
         => /\ last'.returned
            /\ get(entries', last'.key)
                 = Some(MemTableEntry(last'.key, None, last'.timestamp_ms, TRUE))
            /\ size' = size + Len(last'.key) + 17
            /\ len(entries') = len(entries) + 1]_vars

\* delete of a key on an empty table: one tombstone, size len(key) + 17
C10_Witness ==
    /\ last.op = "delete" /\ last.prev = "absent" /\ last.returned
    /\ Len(entries) = 1 /\ entries[1].is_deleted
    /\ Len(last.key) > 0
    /\ size = Len(last.key) + 17

\* C11: delete of a key holding a value old returns, lowers size() by
\* exactly len(old), leaves len() unchanged and leaves the tombstone.
C11_DeleteValued ==
    [][(last'.op = "delete" /\ last'.prev = "value")
         => /\ last'.returned
            /\ size' = size - held_len(entries, last'.key)
            /\ len(entries') = len(entries)
            /\ get(entries', last'.key)
                 = Some(MemTableEntry(last'.key, None, last'.timestamp_ms, TRUE))]_vars

\* C12: delete of a key whose record is already a tombstone leaves len()
\* and size() unchanged; the record stays a tombstone and takes the new
\* timestamp.
C12_ReDelete ==
    [][(last'.op = "delete" /\ last'.prev = "tombstone")
         => /\ last'.returned
            /\ size' = size
            /\ len(entries') = len(entries)
            /\ get(entries', last'.key)
                 = Some(MemTableEntry(last'.key, None, last'.timestamp_ms, TRUE))]_vars

\* a tombstone written at timestamp 0 deleted again at a later timestamp
C12_Witness ==
    /\ last.op = "delete" /\ last.prev = "tombstone" /\ last.returned
    /\ last.timestamp_ms > 0
    /\ get(entries, last.key)
         = Some(MemTableEntry(last.key, None, last.timestamp_ms, TRUE))
    /\ size = content_cost(entries)

\* C13: len() is the number of distinct keys set or delete was called on
\* (tombstones count); a call raises it by exactly 1 when its key was absent
\* and leaves it unchanged when the key was present, so it never decreases.
C13_LenCountsKeys ==
    [][/\ len(entries') = Cardinality(touched')
       /\ len(entries') =
            len(entries) + (IF last'.prev = "absent" THEN 1 ELSE 0)
       /\ len(entries') >= len(entries)]_vars

\* every key was called on, one of them is now a tombstone, and the last
\* call fell on a key already present
C13_Witness ==
    /\ touched = Keys /\ len(entries) = 3
    /\ last.prev # "absent"
    /\ \E i \in 1..3 : entries[i].is_deleted

\* the records of es whose key is not key, in the order of es
others(es, key) == SelectSeq(es, LAMBDA e : e.key # key)

\* C14: entries() is the key-ascending listing of the reference map: one
\* record per key a call was made on, holding the value or tombstone and
\* the timestamp of the latest call on that key.
C14_RefinesMap ==
    /\ Len(entries) = Cardinality({k \in Keys : is_some(reference[k])})
    /\ \A i \in 1..(Len(entries) - 1) :
          cmp(entries[i].key, entries[i + 1].key) = "Less"
    /\ \A i \in 1..Len(entries) :
          /\ entries[i].key \in Keys
          /\ is_some(reference[entries[i].key])
          /\ LET w == unwrap(reference[entries[i].key])
             IN  entries[i] = MemTableEntry(entries[i].key, w.value,
                                            w.timestamp_ms, ~is_some(w.value))

\* C15: a set or delete on k leaves every record of another key unchanged
\* and in the same relative order; when k was present its record keeps its
\* slot, so no record changes position.
C15_Frame ==
    [][/\ others(entries', last'.key) = others(entries, last'.key)
       /\ last'.prev # "absent" =>
            /\ Len(entries') = Len(entries)
            /\ \A i \in 1..Len(entries) :
                  entries'[i].key = entries[i].key]_vars

\* the middle one of three records overwritten in its slot
C15_Witness ==
    /\ last.op = "set" /\ last.prev = "value" /\ last.returned
    /\ Len(entries) = 3
    /\ entries[2] = MemTableEntry(last.key, last.value, last.timestamp_ms, FALSE)
    /\ last.timestamp_ms > entries[1].timestamp_ms

\* ---- sequences of calls on a table ---------------------------------------
SetCalls ==
    {[op |-> "set", key |-> k, value |-> v, timestamp_ms |-> t] :
        k \in Keys, v \in Values, t \in Timestamps}
DeleteCalls ==
    {[op |-> "delete", key |-> k, value |-> <<>>, timestamp_ms |-> t] :
        k \in Keys, t \in Timestamps}

\* the table after call c; no call is made on a table whose last call
\* panicked
after(tbl, c) ==
    IF ~tbl.returned THEN tbl
    ELSE IF c.op = "set"
         THEN set_call(tbl.entries, tbl.size, c.key, c.value, c.timestamp_ms)
         ELSE delete_call(tbl.entries, tbl.size, c.key, c.timestamp_ms)

same_table(a, b) == a.entries = b.entries /\ a.size = b.size

\* C16: two mutations on different keys commute: made in either order on
\* the table of any reachable state they leave the same entries() and the
\* same size().
C16_Commute ==
    LET tbl == Outcome(entries, size, TRUE)
    IN  \A c1, c2 \in SetCalls \cup DeleteCalls :
           c1.key # c2.key =>
              same_table(after(after(tbl, c1), c2), after(after(tbl, c2), c1))

\* C17: every record of entries() has is_deleted = true exactly when its
\* value is None, and is_deleted = false exactly when it holds a value,
\* an empty one included.
C17_FlagMatchesValue ==
    \A i \in 1..Len(entries) :
        entries[i].is_deleted <=> (entries[i].value = None)

\* a tombstone beside a record holding the empty value
C17_Witness ==
    /\ \E i \in 1..Len(entries) :
          entries[i].is_deleted /\ entries[i].value = None
    /\ \E i \in 1..Len(entries) :
          ~entries[i].is_deleted /\ entries[i].value = Some(<<>>)

\* the keys looked up: those of the calls and some that are never written,
\* falling before, between and after them
LookupKeys == Keys \cup {<<1>>, <<1, 2, 0>>, <<1, 3>>, <<2, 0>>}

\* C19: on a strictly sorted buffer get_index(key) is Ok(i) with
\* entries[i].key = key when the key is present, and otherwise Err(i) with
\* every key before position i less than key and every key from i on
\* greater.
C19_LookupContract ==
    C1_StrictlySorted =>
        \A key \in LookupKeys :
            LET r == get_index(entries, key)
                present == \E i \in 1..Len(entries) : entries[i].key = key
            IN  /\ r.idx \in 0..Len(entries)
                /\ r.ok <=> present
                /\ r.ok => entries[r.idx + 1].key = key
                /\ ~r.ok =>
                     /\ \A i \in 1..r.idx : cmp(entries[i].key, key) = "Less"
                     /\ \A i \in (r.idx + 1)..Len(entries) :
                           cmp(entries[i].key, key) = "Greater"

\* three records: a present key found at the last position, absent keys
\* with insertion points at the start of, inside and at the end of the buffer
C19_Witness ==
    /\ Len(entries) = 3
    /\ get_index(entries, <<2>>) = [ok |-> TRUE, idx |-> 2]
    /\ get_index(entries, <<1>>) = [ok |-> FALSE, idx |-> 1]
    /\ get_index(entries, <<1, 3>>) = [ok |-> FALSE, idx |-> 2]
    /\ get_index(entries, <<2, 0>>) = [ok |-> FALSE, idx |-> 3]

====
